---- MODULE Spec2Model ----
(***************************************************************************)
(* HyperDash monitor backend (src/server.py): the snapshot aggregation,    *)
(* the JSON snapshot store and the two threads that run take_snapshot,     *)
(* the cron thread (cron_loop) and the HTTP serving thread (Handler).      *)
(*                                                                         *)
(* Money is counted in mills (1/1000 of a unit), so that round(x, 2) is a  *)
(* real rounding step (to cents); ratios are counted in 1/10000, the       *)
(* result of round(x, 4).  Coins are numbered 1, 2, ...                    *)
(***************************************************************************)
EXTENDS Integers, Sequences, FiniteSets, TLC

\* ------------------------------------------------------------ configuration

TOP_N == 100

\* MAX_SNAPS is 48 and the cap on a snapshot's coin list 60 in the source; the
\* model keeps both cuts with smaller numbers, so that histories and coin
\* lists longer than the cut are reached.
MAX_SNAPS == 3
COIN_CAP == 2

\* Runs each thread may start in one behaviour of the concurrent system.
MaxRuns == 1
\* Writes that may fail part-way in one behaviour.
MaxFaults == 1
Threads == {"cron", "http"}

Min(a, b) == IF a < b THEN a ELSE b

\* ------------------------------------------------------------ rounding

\* Python's round(): the quotient n / d (d # 0) rounded to the nearest
\* integer, a tie going to the even neighbour.
RoundHalfEven(n, d) ==
    LET nn == IF d < 0 THEN -n ELSE n
        dd == IF d < 0 THEN -d ELSE d
        q == nn \div dd
        r == nn % dd
    IN  IF 2 * r < dd THEN q
        ELSE IF 2 * r > dd THEN q + 1
        ELSE IF q % 2 = 0 THEN q ELSE q + 1

\* round(x, 2) of an amount in mills, in cents.
Round2(x) == RoundHalfEven(x, 10)

\* round(a / b, 4), in 1/10000 (b # 0), by long division: two digits of the
\* quotient at a time, then the rounding of the rest.
Ratio4(a, b) ==
    LET n == IF b < 0 THEN -a ELSE a
        d == IF b < 0 THEN -b ELSE b
        q0 == n \div d
        r0 == n % d
        q1 == (r0 * 100) \div d
        r1 == (r0 * 100) % d
        q2 == (r1 * 100) \div d
        r2 == (r1 * 100) % d
        q == q0 * 10000 + q1 * 100 + q2
    IN  IF 2 * r2 < d THEN q
        ELSE IF 2 * r2 > d THEN q + 1
        ELSE IF q % 2 = 0 THEN q ELSE q + 1

\* ------------------------------------------------------------ JSON text

\* The text of the storage file is a sequence of tokens: punctuation, object
\* keys (with their colon) and numbers.
P(s) == [k |-> s, n |-> 0]
Num(x) == [k |-> "num", n |-> x]

RECURSIVE JoinCoins(_, _)
DumpCoin(c) ==
    << P("{"), P("c"), Num(c.c), P("r"), Num(c.r), P("t"), Num(c.t),
       P("lN"), Num(c.lN), P("sN"), Num(c.sN), P("lT"), Num(c.lT),
       P("sT"), Num(c.sT), P("}") >>

JoinCoins(coins, i) ==
    IF i > Len(coins) THEN << >>
    ELSE (IF i > 1 THEN << P(",") >> ELSE << >>) \o DumpCoin(coins[i])
         \o JoinCoins(coins, i + 1)

\* DumpSnap with the two totals under each other's key.
DumpSnap_SwapsTotals(s) ==
    << P("{"), P("ts"), Num(s.ts), P("gR"), Num(s.gR), P("tL"), Num(s.tS),
       P("tS"), Num(s.tL), P("traders"), Num(s.traders), P("coins"), P("[") >>
    \o JoinCoins(s.coins, 1) \o << P("]"), P("}") >>

\* json.dumps of one snapshot.
DumpSnap(s) ==
    << P("{"), P("ts"), Num(s.ts), P("gR"), Num(s.gR), P("tL"), Num(s.tL),
       P("tS"), Num(s.tS), P("traders"), Num(s.traders), P("coins"), P("[") >>
    \o JoinCoins(s.coins, 1) \o << P("]"), P("}") >>

RECURSIVE JoinSnaps(_, _)
JoinSnaps(snaps, i) ==
    IF i > Len(snaps) THEN << >>
    ELSE (IF i > 1 THEN << P(",") >> ELSE << >>) \o DumpSnap(snaps[i])
         \o JoinSnaps(snaps, i + 1)

\* A value json.loads can return for the storage file: a list of snapshots,
\* or some other JSON value (isList = FALSE), which is no list at all.
ListValue(items) == [isList |-> TRUE, items |-> items]
NonListValue == [isList |-> FALSE, items |-> << >>]

\* json.dumps(value, separators=(",", ":")).
JsonDumps(v) ==
    IF v.isList THEN << P("[") >> \o JoinSnaps(v.items, 1) \o << P("]") >>
    ELSE << P("{"), P("}") >>

\* The parsers return [ok, val, pos]: whether the text parses from position
\* p on, the value read and the position after it.
Failed == [ok |-> FALSE, val |-> << >>, pos |-> 0]
IsTok(toks, p, s) == p <= Len(toks) /\ toks[p].k = s

\* The number after key `key` at position p.
ReadField(toks, p, key) ==
    IF IsTok(toks, p, key) /\ IsTok(toks, p + 1, "num")
    THEN [ok |-> TRUE, val |-> toks[p + 1].n, pos |-> p + 2]
    ELSE [ok |-> FALSE, val |-> 0, pos |-> 0]

ParseCoin(toks, p) ==
    LET c == ReadField(toks, p + 1, "c")
        r == ReadField(toks, p + 3, "r")
        t == ReadField(toks, p + 5, "t")
        lN == ReadField(toks, p + 7, "lN")
        sN == ReadField(toks, p + 9, "sN")
        lT == ReadField(toks, p + 11, "lT")
        sT == ReadField(toks, p + 13, "sT")
    IN  IF /\ IsTok(toks, p, "{") /\ IsTok(toks, p + 15, "}")
           /\ c.ok /\ r.ok /\ t.ok /\ lN.ok /\ sN.ok /\ lT.ok /\ sT.ok
        THEN [ok |-> TRUE,
              val |-> << [c |-> c.val, r |-> r.val, t |-> t.val, lN |-> lN.val,
                          sN |-> sN.val, lT |-> lT.val, sT |-> sT.val] >>,
              pos |-> p + 16]
        ELSE Failed

\* The element of a set of one element; used to name a value that is
\* computed once.
Only(S) == CHOOSE x \in S : TRUE

\* A parsed item before the parsed rest of its list.
Cons(item, rest) ==
    IF rest.ok THEN [ok |-> TRUE, val |-> item.val \o rest.val, pos |-> rest.pos]
    ELSE Failed

\* The items of a list after its "[", up to and including its "]".
RECURSIVE ParseCoins(_, _, _)
ParseCoins(toks, p, first) ==
    IF first /\ IsTok(toks, p, "]") THEN [ok |-> TRUE, val |-> << >>, pos |-> p + 1]
    ELSE Only({IF ~item.ok THEN Failed
               ELSE IF IsTok(toks, item.pos, "]") THEN [item EXCEPT !.pos = @ + 1]
               ELSE IF IsTok(toks, item.pos, ",")
                    THEN Only({Cons(item, rest) :
                                  rest \in {ParseCoins(toks, item.pos + 1, FALSE)}})
               ELSE Failed :
               item \in {ParseCoin(toks, p)}})

ParseSnap(toks, p) ==
    LET ts == ReadField(toks, p + 1, "ts")
        gR == ReadField(toks, p + 3, "gR")
        tL == ReadField(toks, p + 5, "tL")
        tS == ReadField(toks, p + 7, "tS")
        tr == ReadField(toks, p + 9, "traders")
        coins == IF IsTok(toks, p + 11, "coins") /\ IsTok(toks, p + 12, "[")
                 THEN ParseCoins(toks, p + 13, TRUE) ELSE Failed
    IN  IF /\ IsTok(toks, p, "{")
           /\ ts.ok /\ gR.ok /\ tL.ok /\ tS.ok /\ tr.ok /\ coins.ok
           /\ IsTok(toks, coins.pos, "}")
        THEN [ok |-> TRUE,
              val |-> << [ts |-> ts.val, gR |-> gR.val, tL |-> tL.val,
                          tS |-> tS.val, traders |-> tr.val,
                          coins |-> coins.val] >>,
              pos |-> coins.pos + 1]
        ELSE Failed

RECURSIVE ParseSnaps(_, _, _)
ParseSnaps(toks, p, first) ==
    IF first /\ IsTok(toks, p, "]") THEN [ok |-> TRUE, val |-> << >>, pos |-> p + 1]
    ELSE Only({IF ~item.ok THEN Failed
               ELSE IF IsTok(toks, item.pos, "]") THEN [item EXCEPT !.pos = @ + 1]
               ELSE IF IsTok(toks, item.pos, ",")
                    THEN Only({Cons(item, rest) :
                                  rest \in {ParseSnaps(toks, item.pos + 1, FALSE)}})
               ELSE Failed :
               item \in {ParseSnap(toks, p)}})

\* json.loads(text): [ok, val]; ok is FALSE where json.loads raises.  The
\* documents told apart are a list of snapshots, the empty object and
\* everything that is no complete JSON document.
JsonLoads(toks) ==
    IF toks = << P("{"), P("}") >> THEN [ok |-> TRUE, val |-> NonListValue]
    ELSE IF IsTok(toks, 1, "[")
         THEN LET r == ParseSnaps(toks, 2, TRUE)
              IN  IF r.ok /\ r.pos = Len(toks) + 1
                  THEN [ok |-> TRUE, val |-> ListValue(r.val)]
                  ELSE [ok |-> FALSE, val |-> ListValue(<< >>)]
    ELSE [ok |-> FALSE, val |-> ListValue(<< >>)]

\* ------------------------------------------------------------ data layer

\* The storage file: whether it exists, whether the process may open it, and
\* its text.
NoFile == [exists |-> FALSE, perm |-> TRUE, text |-> << >>]
FileOf(text) == [exists |-> TRUE, perm |-> TRUE, text |-> text]
LockedFile(text) == [exists |-> TRUE, perm |-> FALSE, text |-> text]

\* load_snapshots() on storage file f.
load_snapshots(f) ==
    IF f.exists /\ f.perm /\ JsonLoads(f.text).ok
    THEN JsonLoads(f.text).val
    ELSE ListValue(<< >>)

\* What a write of `data` at offset 0 leaves of text `old`.
Overwrite(old, data) ==
    data \o SubSeq(old, Len(data) + 1, Len(old))

\* ------------------------------------------------------------ upstream data

\* One entry of a clearinghouseState's assetPositions: a well-formed position
\* (coin, sign of szi, positionValue in mills), or a malformed one (ok =
\* FALSE: a key is missing or a number does not parse).
Position(coin, szi, val) == [ok |-> TRUE, coin |-> coin, szi |-> szi, val |-> val]
Malformed == [ok |-> FALSE, coin |-> 0, szi |-> 0, val |-> 0]

\* What fetch_positions gives for one trader: it raises ("raise"), it returns
\* a response without assetPositions ("empty"), or it returns positions.
Trader(recs) == [fetch |-> "ok", recs |-> recs]
Unreachable == [fetch |-> "raise", recs |-> << >>]
NoPositions == [fetch |-> "empty", recs |-> << >>]

\* ------------------------------------------------------------ aggregation

\* The accumulators of take_snapshot before the first trader.
InitAcc ==
    [coin_data |-> << >>, total_long |-> 0, total_short |-> 0,
     loaded |-> 0, errors |-> 0]

\* The place of coin c in coin_data (a dict, in insertion order), 0 if absent.
CoinIndex(cd, c) ==
    IF \E k \in 1..Len(cd) : cd[k].c = c
    THEN CHOOSE k \in 1..Len(cd) : cd[k].c = c
    ELSE 0

\* One well-formed position with val # 0 added to the accumulators.
AddPosition(acc, rec) ==
    LET cd0 == acc.coin_data
        cd == IF CoinIndex(cd0, rec.coin) = 0
              THEN Append(cd0, [c |-> rec.coin, lN |-> 0, sN |-> 0, lT |-> 0, sT |-> 0])
              ELSE cd0
        k == CoinIndex(cd, rec.coin)
    IN  IF rec.szi > 0
        THEN [acc EXCEPT !.coin_data =
                            [cd EXCEPT ![k].lN = @ + rec.val, ![k].lT = @ + 1],
                         !.total_long = @ + rec.val]
        ELSE [acc EXCEPT !.coin_data =
                            [cd EXCEPT ![k].sN = @ + rec.val, ![k].sT = @ + 1],
                         !.total_short = @ + rec.val]

\* The loop over one trader's assetPositions from index j on: a malformed
\* entry raises, which ends the trader (errors += 1) and keeps what the
\* entries before it added; after the last entry loaded += 1.
RECURSIVE ProcessPositions(_, _, _)
ProcessPositions(acc, recs, j) ==
    IF j > Len(recs) THEN [acc EXCEPT !.loaded = @ + 1]
    ELSE IF ~recs[j].ok THEN [acc EXCEPT !.errors = @ + 1]
    ELSE IF recs[j].val = 0 THEN ProcessPositions(acc, recs, j + 1)
    ELSE ProcessPositions(AddPosition(acc, recs[j]), recs, j + 1)

\* ProcessTrader with loaded += 1 also for a trader whose fetch raises.
ProcessTrader_CountsFailed(acc, tr) ==
    IF tr.fetch = "raise" THEN [acc EXCEPT !.errors = @ + 1, !.loaded = @ + 1]
    ELSE IF tr.fetch = "empty" THEN acc
    ELSE ProcessPositions(acc, tr.recs, 1)

\* One iteration of the loop over the traders.
ProcessTrader(acc, tr) ==
    IF tr.fetch = "raise" THEN [acc EXCEPT !.errors = @ + 1]
    ELSE IF tr.fetch = "empty" THEN acc
    ELSE ProcessPositions(acc, tr.recs, 1)

\* The whole loop, from trader i on.
RECURSIVE ProcessTraders(_, _, _)
ProcessTraders(acc, traders, i) ==
    IF i > Len(traders) THEN acc
    ELSE ProcessTraders(ProcessTrader(acc, traders[i]), traders, i + 1)

\* The coin list: one entry per coin of coin_data whose total is not 0.
RECURSIVE BuildCoins(_, _)
BuildCoins(cd, k) ==
    IF k > Len(cd) THEN << >>
    ELSE LET d == cd[k]
             tot == d.lN + d.sN
         IN  (IF tot = 0 THEN << >>
              ELSE << [c |-> d.c, r |-> Ratio4(d.lN, tot), t |-> Round2(tot),
                       lN |-> Round2(d.lN), sN |-> Round2(d.sN),
                       lT |-> d.lT, sT |-> d.sT] >>)
             \o BuildCoins(cd, k + 1)

\* InsertByTotal with x put before the entries of equal t.
RECURSIVE InsertByTotal_TiesFirst(_, _)
InsertByTotal_TiesFirst(s, x) ==
    IF s = << >> THEN << x >>
    ELSE IF s[1].t > x.t THEN << s[1] >> \o InsertByTotal_TiesFirst(Tail(s), x)
    ELSE << x >> \o s

\* x put into list s, sorted by t descending, behind the entries of equal t.
RECURSIVE InsertByTotal(_, _)
InsertByTotal(s, x) ==
    IF s = << >> THEN << x >>
    ELSE IF s[1].t >= x.t THEN << s[1] >> \o InsertByTotal(Tail(s), x)
    ELSE << x >> \o s

\* coins.sort(key=lambda x: x["t"], reverse=True): a stable sort.
RECURSIVE SortByTotal(_, _)
SortByTotal(coins, k) ==
    IF k = 0 THEN << >>
    ELSE InsertByTotal(SortByTotal(coins, k - 1), coins[k])

\* The snapshot built from the accumulators at time now.
BuildSnap(acc, now) ==
    LET coins == SortByTotal(BuildCoins(acc.coin_data, 1),
                             Len(BuildCoins(acc.coin_data, 1)))
        total == acc.total_long + acc.total_short
    IN  [ts |-> now,
         gR |-> IF total > 0 THEN Ratio4(acc.total_long, total) ELSE 0,
         tL |-> Round2(acc.total_long),
         tS |-> Round2(acc.total_short),
         traders |-> acc.loaded,
         coins |-> SubSeq(coins, 1, Min(Len(coins), COIN_CAP))]

\* AppendSnap with the cut snaps[:MAX_SNAPS], which keeps the oldest entries.
AppendSnap_KeepsOldest(items, snap) ==
    LET a == Append(items, snap)
    IN  IF Len(a) > MAX_SNAPS THEN SubSeq(a, 1, MAX_SNAPS) ELSE a

\* snaps.append(snap), then the last MAX_SNAPS entries.
AppendSnap(items, snap) ==
    LET a == Append(items, snap)
    IN  IF Len(a) > MAX_SNAPS THEN SubSeq(a, Len(a) - MAX_SNAPS + 1, Len(a)) ELSE a

\* rows[:TOP_N] of the leaderboard.
TopN(rows) == SubSeq(rows, 1, Min(Len(rows), TOP_N))

\* ------------------------------------------------------------ state

VARIABLES
    file,       \* the storage file DATA_FILE
    store0,     \* the storage file as the process found it
    upstream,   \* which leaderboards the API may answer with (see Leaderboards)
    clock,      \* time.time() in ms
    budget,     \* per thread, the runs it may still start
    pc,         \* per thread, where it stands
    loc,        \* per thread, the locals of its take_snapshot call
    outcome,    \* per thread, how its last run ended
    resp,       \* the last HTTP response sent
    completed,  \* the snapshots returned by take_snapshot, in order of return
    faults,     \* the writes to the storage file that failed part-way
    clean,      \* per thread, whether no other thread touched the file since its open
    persisted   \* the last history saved with no write since, if any

vars == << file, store0, upstream, clock, budget, pc, loc, outcome, resp,
           completed, faults, clean, persisted >>

Other(t) == CHOOSE u \in Threads : u # t

BTC == 1
ETH == 2

A_ok == Trader(<< Position(BTC, 1, 1000000) >>)
B_ok == Trader(<< Position(BTC, -1, 500000) >>)
C_ok == Trader(<< Position(ETH, -1, 250004), Position(BTC, 1, 0) >>)
\* A trader with no open position.
Flat == Trader(<< >>)
\* A trader whose second position is malformed.
B_partial == Trader(<< Position(ETH, 1, 300000), Malformed >>)
\* A trader whose first position is malformed.
B_malformed == Trader(<< Malformed, Position(ETH, 1, 300000) >>)

\* The longest leaderboard of the set of all leaderboards.
MaxTraders == 3

TraderKinds ==
    {A_ok, B_ok, C_ok, Flat, B_partial, B_malformed, Unreachable, NoPositions}

RECURSIVE SeqsUpTo(_, _)
SeqsUpTo(S, n) ==
    IF n = 0 THEN {<< >>}
    ELSE LET shorter == SeqsUpTo(S, n - 1)
         IN  shorter \cup {Append(q, x) : q \in shorter, x \in S}

\* The leaderboards fetch_leaderboard may return: one of two traders, or
\* every list of up to MaxTraders traders.
OneLeaderboard == {<< A_ok, B_partial >>}
AllLeaderboards == SeqsUpTo(TraderKinds, MaxTraders)
\* A third coin, so that a snapshot may hold more coins than COIN_CAP.
SOL == 3

\* A trader whose position is worth what A_ok's is, in another coin.
E_tie == Trader(<< Position(ETH, 1, 1000000) >>)
\* A trader whose position is worth less than half a cent.
S_dust == Trader(<< Position(SOL, 1, 4) >>)
\* A trader whose assetPositions hold two entries of one coin.
D_twice == Trader(<< Position(BTC, 1, 100000), Position(BTC, 1, 200000) >>)
\* A trader whose positionValue is negative.
N_neg == Trader(<< Position(ETH, -1, -5000) >>)

RichKinds ==
    {A_ok, B_ok, C_ok, E_tie, S_dust, D_twice, N_neg, Flat, B_partial,
     Unreachable, NoPositions}
RichLeaderboards == SeqsUpTo(RichKinds, MaxTraders)

Leaderboards ==
    IF upstream = "one" THEN OneLeaderboard
    ELSE IF upstream = "all" THEN AllLeaderboards
    ELSE RichLeaderboards


\* A snapshot of no traders taken at time ts.
EmptySnap(ts) == BuildSnap(InitAcc, ts)

NoLocals ==
    [traders |-> << >>, i |-> 0, acc |-> InitAcc, snap |-> EmptySnap(0),
     snaps |-> ListValue(<< >>)]

NoResponse == [status |-> 0, body |-> << >>]
NothingPersisted == [valid |-> FALSE, val |-> ListValue(<< >>)]

\* A thread is inside take_snapshot.
InRun(t) == pc[t] \notin {"idle", "crashed"}

\* ------------------------------------------------------------ the ways out

\* Raise with a do_GET that answers every run with status 200.
Raise_Answers200(t, why) ==
    /\ pc' = [pc EXCEPT ![t] = "idle"]
    /\ loc' = [loc EXCEPT ![t] = NoLocals]
    /\ outcome' = [outcome EXCEPT ![t] = why]
    /\ resp' = IF t = "http" THEN [status |-> 200, body |-> << P("error") >>]
               ELSE resp

\* Raise without the try of cron_loop: the exception ends the cron thread.
Raise_Dies(t, why) ==
    /\ pc' = [pc EXCEPT ![t] = IF t = "cron" THEN "crashed" ELSE "idle"]
    /\ loc' = [loc EXCEPT ![t] = NoLocals]
    /\ outcome' = [outcome EXCEPT ![t] = why]
    /\ resp' = IF t = "http" THEN [status |-> 500, body |-> << P("error") >>]
               ELSE resp

\* An exception leaves take_snapshot in thread t: cron_loop prints it and
\* sleeps, do_GET answers 500 with an error field.
Raise(t, why) ==
    /\ pc' = [pc EXCEPT ![t] = "idle"]
    /\ loc' = [loc EXCEPT ![t] = NoLocals]
    /\ outcome' = [outcome EXCEPT ![t] = why]
    /\ resp' = IF t = "http" THEN [status |-> 500, body |-> << P("error") >>]
               ELSE resp

\* take_snapshot returns snap in thread t: cron_loop sleeps, do_GET answers
\* 200 with the snapshot.
Return(t, snap) ==
    /\ pc' = [pc EXCEPT ![t] = "idle"]
    /\ loc' = [loc EXCEPT ![t] = NoLocals]
    /\ outcome' = [outcome EXCEPT ![t] = "ok"]
    /\ resp' = IF t = "http" THEN [status |-> 200, body |-> DumpSnap(snap)]
               ELSE resp
    /\ completed' = Append(completed, snap)

\* ------------------------------------------------------------ take_snapshot

\* take_snapshot is called in thread t.
TakeSnapshotCall(t) ==
    /\ pc[t] = "idle"
    /\ budget[t] > 0
    /\ budget' = [budget EXCEPT ![t] = @ - 1]
    /\ pc' = [pc EXCEPT ![t] = "fetch_lb"]
    /\ UNCHANGED << file, store0, upstream, clock, loc, outcome, completed,
                    faults, clean, persisted >>

\* cron_loop: the thread starts, or its sleep ends.
CronTick ==
    /\ TakeSnapshotCall("cron")
    /\ UNCHANGED resp

\* do_GET for /api/snapshot/now.
GetSnapshotNow ==
    /\ TakeSnapshotCall("http")
    /\ resp' = NoResponse

\* GetSnapshots under a server that handles each request in a thread of its
\* own: the history is read also while an on-demand run is in progress.
GetSnapshots_Threaded ==
    /\ resp' = [status |-> 200, body |-> JsonDumps(load_snapshots(file))]
    /\ UNCHANGED << file, store0, upstream, clock, budget, pc, loc, outcome,
                    completed, faults, clean, persisted >>

\* do_GET for /api/snapshots.
GetSnapshots ==
    /\ pc["http"] = "idle"
    /\ resp' = [status |-> 200, body |-> JsonDumps(load_snapshots(file))]
    /\ UNCHANGED << file, store0, upstream, clock, budget, pc, loc, outcome,
                    completed, faults, clean, persisted >>

\* FetchLeaderboardOk in a take_snapshot that loads the history first.
FetchLeaderboardOk_LoadsFirst(t) ==
    /\ pc[t] = "fetch_lb"
    /\ \E rows \in Leaderboards :
          loc' = [loc EXCEPT ![t] = [NoLocals EXCEPT
                                        !.traders = TopN(rows),
                                        !.snaps = load_snapshots(file)]]
    /\ pc' = [pc EXCEPT ![t] = "loop"]
    /\ UNCHANGED << file, store0, upstream, clock, budget, outcome, resp,
                    completed, faults, clean, persisted >>

\* fetch_leaderboard returns.
FetchLeaderboardOk(t) ==
    /\ pc[t] = "fetch_lb"
    /\ \E rows \in Leaderboards :
          loc' = [loc EXCEPT ![t] = [NoLocals EXCEPT !.traders = TopN(rows)]]
    /\ pc' = [pc EXCEPT ![t] = "loop"]
    /\ UNCHANGED << file, store0, upstream, clock, budget, outcome, resp,
                    completed, faults, clean, persisted >>

\* FetchLeaderboardFail with a save of the empty history on the way out.
FetchLeaderboardFail_Saves(t) ==
    /\ pc[t] = "fetch_lb"
    /\ Raise(t, "lb_failed")
    /\ file' = FileOf(JsonDumps(ListValue(<< >>)))
    /\ UNCHANGED << store0, upstream, clock, budget, completed, faults, clean,
                    persisted >>

\* fetch_leaderboard raises.
FetchLeaderboardFail(t) ==
    /\ pc[t] = "fetch_lb"
    /\ Raise(t, "lb_failed")
    /\ UNCHANGED << file, store0, upstream, clock, budget, completed, faults,
                    clean, persisted >>

\* One iteration of the loop over the traders.
TraderStep(t) ==
    /\ pc[t] = "loop"
    /\ loc[t].i < Len(loc[t].traders)
    /\ loc' = [loc EXCEPT ![t].i = @ + 1,
                          ![t].acc = ProcessTrader(@, loc[t].traders[loc[t].i + 1])]
    /\ UNCHANGED << file, store0, upstream, clock, budget, pc, outcome, resp,
                    completed, faults, clean, persisted >>

\* After the loop: the coin list and the snapshot.
Finalize(t) ==
    /\ pc[t] = "loop"
    /\ loc[t].i = Len(loc[t].traders)
    /\ loc' = [loc EXCEPT ![t].snap = BuildSnap(loc[t].acc, clock)]
    /\ clock' = clock + 1
    /\ pc' = [pc EXCEPT ![t] = "load"]
    /\ UNCHANGED << file, store0, upstream, budget, outcome, resp, completed,
                    faults, clean, persisted >>

\* snaps = load_snapshots()
Load(t) ==
    /\ pc[t] = "load"
    /\ loc' = [loc EXCEPT ![t].snaps = load_snapshots(file)]
    /\ pc' = [pc EXCEPT ![t] = "append"]
    /\ UNCHANGED << file, store0, upstream, clock, budget, outcome, resp,
                    completed, faults, clean, persisted >>

\* snaps.append(snap) and the cut to MAX_SNAPS.
AppendOk(t) ==
    /\ pc[t] = "append"
    /\ loc[t].snaps.isList
    /\ loc' = [loc EXCEPT ![t].snaps =
                              ListValue(AppendSnap(@.items, loc[t].snap))]
    /\ pc' = [pc EXCEPT ![t] = "save"]
    /\ UNCHANGED << file, store0, upstream, clock, budget, outcome, resp,
                    completed, faults, clean, persisted >>

\* snaps.append on a value that is no list raises AttributeError.
AppendFail(t) ==
    /\ pc[t] = "append"
    /\ ~loc[t].snaps.isList
    /\ Raise(t, "append_failed")
    /\ UNCHANGED << file, store0, upstream, clock, budget, completed, faults,
                    clean, persisted >>

\* save_snapshots: write_text opens the file for writing, which creates or
\* truncates it.
SaveOpen(t) ==
    /\ pc[t] = "save"
    /\ file.perm
    /\ file' = FileOf(<< >>)
    /\ pc' = [pc EXCEPT ![t] = "write"]
    /\ clean' = [clean EXCEPT ![t] = TRUE, ![Other(t)] = FALSE]
    /\ persisted' = NothingPersisted
    /\ UNCHANGED << store0, upstream, clock, budget, loc, outcome, resp,
                    completed, faults >>

\* save_snapshots: the open raises (the file may not be opened).
SaveOpenFail(t) ==
    /\ pc[t] = "save"
    /\ ~file.perm
    /\ Raise(t, "save_failed")
    /\ UNCHANGED << file, store0, upstream, clock, budget, completed, faults,
                    clean, persisted >>

\* save_snapshots: the text is written and the file closed; take_snapshot
\* returns.
SaveWrite(t) ==
    /\ pc[t] = "write"
    /\ file' = [file EXCEPT !.text = Overwrite(@, JsonDumps(loc[t].snaps))]
    /\ clean' = [clean EXCEPT ![Other(t)] = FALSE]
    /\ persisted' = IF clean[t] THEN [valid |-> TRUE, val |-> loc[t].snaps]
                    ELSE NothingPersisted
    /\ Return(t, loc[t].snap)
    /\ UNCHANGED << store0, upstream, clock, budget, faults >>

\* The lengths at which a failing write of n tokens may stop.
CutPoints(n) == {0, n \div 2, n - 1}

\* save_snapshots: the write raises (the disk is full) after part of the text.
SaveWriteFail(t) ==
    /\ pc[t] = "write"
    /\ faults < MaxFaults
    /\ \E n \in CutPoints(Len(JsonDumps(loc[t].snaps))) :
          file' = [file EXCEPT !.text =
                      Overwrite(@, SubSeq(JsonDumps(loc[t].snaps), 1, n))]
    /\ clean' = [clean EXCEPT ![Other(t)] = FALSE]
    /\ persisted' = NothingPersisted
    /\ faults' = faults + 1
    /\ Raise(t, "save_failed")
    /\ UNCHANGED << store0, upstream, clock, budget, completed >>

\* The process is killed and started again: the file stays as it is, and the
\* cron thread starts with a run.
Restart ==
    /\ pc' = [t \in Threads |-> "idle"]
    /\ loc' = [t \in Threads |-> NoLocals]
    /\ outcome' = [t \in Threads |-> "none"]
    /\ resp' = NoResponse
    /\ clean' = [t \in Threads |-> FALSE]
    /\ UNCHANGED << file, store0, upstream, clock, budget, completed, faults,
                    persisted >>

\* ------------------------------------------------------------ inputs

\* The history an earlier process left: n snapshots, taken at times 1..n.
RECURSIVE OldHistory(_)
OldHistory(n) ==
    IF n = 0 THEN << >> ELSE Append(OldHistory(n - 1), EmptySnap(n))

\* The first time.time() of this process, after every old snapshot.
ClockStart == MAX_SNAPS + 1

\* The storage files the process may find: none, an empty list, a full
\* history, a history cut short by a crash, a JSON document that is no list,
\* and a file it may not open.
FullStore == FileOf(JsonDumps(ListValue(OldHistory(MAX_SNAPS))))
CutStore == FileOf(SubSeq(JsonDumps(ListValue(OldHistory(1))), 1, 9))
ObjectStore == FileOf(JsonDumps(NonListValue))
EmptyStore == FileOf(JsonDumps(ListValue(<< >>)))
LockedStore == LockedFile(JsonDumps(ListValue(OldHistory(1))))

Stores == {NoFile, EmptyStore, FullStore, CutStore, ObjectStore, LockedStore}

\* The store holds no snapshot when the process starts.
ColdStart == store0 \in {NoFile, EmptyStore}

InitWith(stores, lbs, runs) ==
    /\ file \in stores
    /\ store0 = file
    /\ upstream = lbs
    /\ clock = ClockStart
    /\ budget = runs
    /\ pc = [t \in Threads |-> "idle"]
    /\ loc = [t \in Threads |-> NoLocals]
    /\ outcome = [t \in Threads |-> "none"]
    /\ resp = NoResponse
    /\ completed = << >>
    /\ faults = 0
    /\ clean = [t \in Threads |-> FALSE]
    /\ persisted = NothingPersisted

\* ------------------------------------------------------------ the system

\* The two threads of the process, each starting at most MaxRuns runs.
Init ==
    InitWith(Stores, "one",
             [t \in Threads |-> MaxRuns])

Step(t) ==
    \/ FetchLeaderboardOk(t)
    \/ FetchLeaderboardFail(t)
    \/ TraderStep(t)
    \/ Finalize(t)
    \/ Load(t)
    \/ AppendOk(t)
    \/ AppendFail(t)
    \/ SaveOpen(t)
    \/ SaveOpenFail(t)
    \/ SaveWrite(t)
    \/ SaveWriteFail(t)

Next ==
    \/ CronTick
    \/ GetSnapshotNow
    \/ GetSnapshots
    \/ \E t \in Threads : Step(t)

Spec == Init /\ [][Next]_vars

\* The same system with the fairness of its scheduling: the cron thread is
\* never starved, its sleep ends, and every network call of a run returns or
\* times out.  The cron thread may start one run more than MaxRuns, and one
\* on-demand request arrives.
LiveInit ==
    InitWith({EmptyStore, ObjectStore, LockedStore}, "one",
             [t \in Threads |-> IF t = "cron" THEN MaxRuns + 1 ELSE 1])

LiveSpec ==
    LiveInit /\ [][Next]_vars /\ WF_vars(CronTick) /\ WF_vars(Step("cron"))

\* ------------------------------------------------------------ runs in turn

\* The system when no run starts while another is in progress: the cron
\* thread makes MAX_SNAPS + 5 runs, and on-demand requests come between them.
SeqInit ==
    InitWith({EmptyStore, ObjectStore, LockedStore}, "one",
             [t \in Threads |-> IF t = "cron" THEN MAX_SNAPS + 5 ELSE MaxRuns])

SeqCronTick == CronTick /\ ~InRun("http")
SeqGetSnapshotNow == GetSnapshotNow /\ ~InRun("cron")

SeqNext ==
    \/ SeqCronTick
    \/ SeqGetSnapshotNow
    \/ \E t \in Threads : Step(t)

SeqSpec == SeqInit /\ [][SeqNext]_vars

\* ------------------------------------------------------------ one run

\* One on-demand run over every leaderboard of up to MaxTraders traders.
AggInit ==
    InitWith({NoFile, ObjectStore, LockedStore}, "all",
             [t \in Threads |-> IF t = "http" THEN 1 ELSE 0])

AggNext ==
    \/ GetSnapshotNow
    \/ Step("http")

AggSpec == AggInit /\ [][AggNext]_vars

\* ------------------------------------------------------------ one snapshot

\* One on-demand run up to its snapshot, over every leaderboard of up to
\* MaxTraders traders of RichKinds.
SnapInit ==
    InitWith({NoFile}, "rich",
             [t \in Threads |-> IF t = "http" THEN 1 ELSE 0])

SnapNext ==
    \/ GetSnapshotNow
    \/ FetchLeaderboardOk("http")
    \/ FetchLeaderboardFail("http")
    \/ TraderStep("http")
    \/ Finalize("http")

SnapSpec == SnapInit /\ [][SnapNext]_vars

\* ------------------------------------------------------------ the store

\* save_snapshots and load_snapshots on their own: the cron thread is about
\* to save a history of up to MaxHist snapshots over each storage file, the
\* HTTP thread serves /api/snapshots, and the process may be restarted.
MaxHist == 2

SampleSnaps ==
    {EmptySnap(1), EmptySnap(2),
     BuildSnap(ProcessTraders(InitAcc, << A_ok, B_ok, C_ok >>, 1), 2)}

StoreInit ==
    /\ file \in Stores
    /\ store0 = file
    /\ upstream = "one"
    /\ clock = ClockStart
    /\ budget = [t \in Threads |-> 0]
    /\ pc = [t \in Threads |-> IF t = "cron" THEN "save" ELSE "idle"]
    /\ \E h \in SeqsUpTo(SampleSnaps, MaxHist) :
          loc = [t \in Threads |->
                    IF t = "cron" THEN [NoLocals EXCEPT !.snaps = ListValue(h)]
                    ELSE NoLocals]
    /\ outcome = [t \in Threads |-> "none"]
    /\ resp = NoResponse
    /\ completed = << >>
    /\ faults = 0
    /\ clean = [t \in Threads |-> FALSE]
    /\ persisted = NothingPersisted

StoreNext ==
    \/ SaveOpen("cron")
    \/ SaveOpenFail("cron")
    \/ SaveWrite("cron")
    \/ SaveWriteFail("cron")
    \/ GetSnapshots
    \/ Restart

StoreSpec == StoreInit /\ [][StoreNext]_vars

\* ------------------------------------------------------------ properties

Quiescent == \A t \in Threads : pc[t] = "idle"

\* The history a load of the storage file gives.
Persisted == load_snapshots(file).items

\* The last n entries of sequence s.
LastN(s, n) == SubSeq(s, Len(s) - Min(Len(s), n) + 1, Len(s))

\* C1: at most one thread is inside take_snapshot at any time.
C1_AtMostOneRun == Cardinality({t \in Threads : InRun(t)}) <= 1

\* C2: from an empty store and with no failed write, once k <= MAX_SNAPS runs
\* have returned and no run is in progress, the persisted history holds
\* exactly k snapshots, one for each run that returned.
C2_OneAppendPerRun ==
    (ColdStart /\ faults = 0 /\ Quiescent /\ Len(completed) <= MAX_SNAPS)
    => /\ Len(Persisted) = Len(completed)
       /\ \A k \in 1..Len(completed) :
             \E j \in 1..Len(Persisted) : Persisted[j] = completed[k]

\* C3: every step leaves the text of the storage file as it was or makes it
\* the complete text of a history being saved.
C3_AtomicReplace ==
    [][\/ file'.text = file.text
       \/ \E t \in Threads : /\ pc[t] \in {"save", "write"}
                             /\ file'.text = JsonDumps(loc[t].snaps)]_vars

\* C4: when runs take turns, from an empty store and with no failed write,
\* the persisted history between runs is the last min(k, MAX_SNAPS) of the k
\* snapshots returned so far, oldest first.
C4_Retention ==
    (ColdStart /\ faults = 0 /\ Quiescent)
    => Persisted = LastN(completed, MAX_SNAPS)

\* MAX_SNAPS + 5 runs have returned, so five snapshots were evicted.
C4_Witness ==
    /\ ColdStart /\ faults = 0 /\ Quiescent
    /\ Len(completed) = MAX_SNAPS + 5
    /\ Len(Persisted) = MAX_SNAPS
    /\ Persisted[1] = completed[6]

\* C5: after a save of history H with no write since, also across a restart,
\* load_snapshots returns H.
C5_RoundTrip == persisted.valid => load_snapshots(file) = persisted.val

\* A history of two snapshots, one with coins, saved, and the process
\* restarted.
C5_Witness ==
    /\ persisted.valid
    /\ Len(persisted.val.items) >= 2
    /\ \E k \in 1..Len(persisted.val.items) : persisted.val.items[k].coins # << >>
    /\ outcome["cron"] = "none"
    /\ resp.status = 200

\* C6: what load_snapshots returns to take_snapshot is a list of snapshots.
C6_LoadReturnsHistory ==
    \A t \in Threads : pc[t] = "append" => loc[t].snaps.isList

\* A trader that contributes to loaded: the fetch returned positions and all
\* of them are well-formed.
Succeeded(tr) ==
    /\ tr.fetch = "ok"
    /\ \A j \in 1..Len(tr.recs) : tr.recs[j].ok

\* A trader whose processing fails: the fetch raises or a position is
\* malformed.
FailedTrader(tr) ==
    \/ tr.fetch = "raise"
    \/ \E j \in 1..Len(tr.recs) : ~tr.recs[j].ok

RECURSIVE WithoutFailed(_)
WithoutFailed(traders) ==
    IF traders = << >> THEN << >>
    ELSE (IF FailedTrader(Head(traders)) THEN << >> ELSE << Head(traders) >>)
         \o WithoutFailed(Tail(traders))

Range(s) == {s[k] : k \in 1..Len(s)}

\* C7: after any number of traders, the per-coin notionals and counts and the
\* two totals are those of the same traders without the failed ones.
C7_BatchIsolation ==
    \A t \in Threads :
        pc[t] = "loop" =>
            LET seen == SubSeq(loc[t].traders, 1, loc[t].i)
                ref == ProcessTraders(InitAcc, WithoutFailed(seen), 1)
            IN  /\ Range(loc[t].acc.coin_data) = Range(ref.coin_data)
                /\ loc[t].acc.total_long = ref.total_long
                /\ loc[t].acc.total_short = ref.total_short

\* Past the loop every trader was visited, the snapshot counts the traders
\* processed without failure, and it is the last entry of the history about
\* to be saved.
C8_State ==
    \A t \in Threads :
        /\ pc[t] \in {"load", "append", "save", "write"} =>
              /\ loc[t].i = Len(loc[t].traders)
              /\ loc[t].snap.traders =
                    Cardinality({k \in 1..Len(loc[t].traders) :
                                    Succeeded(loc[t].traders[k])})
        /\ pc[t] \in {"save", "write"} =>
              /\ loc[t].snaps.items # << >>
              /\ loc[t].snaps.items[Len(loc[t].snaps.items)] = loc[t].snap

\* A step from the loop goes on to the next trader or, after the last one,
\* to the snapshot.
C8_Step ==
    \A t \in Threads :
        pc[t] = "loop" =>
            \/ pc'[t] = "loop" /\ loc'[t].i \in {loc[t].i, loc[t].i + 1}
            \/ pc'[t] = "load" /\ loc[t].i = Len(loc[t].traders)

\* C8: no failure of a trader ends the run: the loop over the traders is
\* left only after the last trader, with a snapshot whose traders field is
\* the number of traders processed without failure, and that snapshot is
\* appended to the history.
C8_TraderFailureNeverAborts == []C8_State /\ [][C8_Step]_vars

\* A run about to save whose first trader failed and whose last did not.
C8_Witness ==
    /\ pc["http"] = "save"
    /\ Len(loc["http"].traders) = MaxTraders
    /\ FailedTrader(loc["http"].traders[1])
    /\ Succeeded(loc["http"].traders[MaxTraders])
    /\ loc["http"].acc.errors >= 1

\* C9: the call of take_snapshot and the failure of fetch_leaderboard leave
\* the storage file as it is.
C9_FailedRunKeepsStore ==
    [][\A t \in Threads :
          (/\ pc[t] \in {"idle", "fetch_lb"} /\ pc'[t] \in {"idle", "fetch_lb"}
           /\ pc'[t] # pc[t])
          => file' = file]_vars

\* A run that failed at the leaderboard over a full store.
C9_Witness ==
    /\ outcome["cron"] = "lb_failed"
    /\ pc["cron"] = "idle"
    /\ Len(Persisted) = MAX_SNAPS

\* C10: every run of the cron thread ends, and while the cron thread has runs
\* left a new one starts, whatever the outcome of the last.
C10_SchedulerNeverWedges ==
    /\ InRun("cron") ~> ~InRun("cron")
    /\ (~InRun("cron") /\ budget["cron"] > 0) ~> InRun("cron")

\* A run of the cron thread started after one that failed at the write.
C10_Witness ==
    /\ pc["cron"] = "fetch_lb"
    /\ outcome["cron"] = "save_failed"

\* The outcomes of a run that take_snapshot leaves with an exception.
Failures == {"lb_failed", "append_failed", "save_failed"}

\* C11: when the run of a request for /api/snapshot/now ends, a run that
\* failed at the leaderboard or at the store is answered with status 500 and
\* an error field, and a run that succeeded is answered with status 200 and
\* the snapshot it appended to the history.
C11_TriggerAnswer ==
    [][(pc["http"] # "idle" /\ pc'["http"] = "idle")
       => \/ /\ outcome'["http"] \in Failures
             /\ resp'.status = 500
             /\ resp'.body = << P("error") >>
          \/ /\ outcome'["http"] = "ok"
             /\ pc["http"] = "write"
             /\ resp'.status = 200
             /\ resp'.body =
                   DumpSnap(loc["http"].snaps.items[Len(loc["http"].snaps.items)])
             /\ completed'[Len(completed')] =
                   loc["http"].snaps.items[Len(loc["http"].snaps.items)]]_vars

\* An on-demand run that failed at the write, answered 500.
C11_Witness ==
    /\ pc["http"] = "idle"
    /\ outcome["http"] = "save_failed"
    /\ resp.status = 500
    /\ faults = 1

\* ------------------------------------------------------------ the snapshot

\* A run whose snapshot is built.
HasSnap(t) == pc[t] \in {"load", "append", "save", "write"}

\* The entries of recs from index j on that the loop adds: those before the
\* first malformed one whose val is not 0.
RECURSIVE ReadRecs(_, _)
ReadRecs(recs, j) ==
    IF j > Len(recs) THEN << >>
    ELSE IF ~recs[j].ok THEN << >>
    ELSE (IF recs[j].val = 0 THEN << >> ELSE << recs[j] >>)
         \o ReadRecs(recs, j + 1)

\* The entries the loop adds for trader tr.
AddedRecs(tr) == IF tr.fetch = "ok" THEN ReadRecs(tr.recs, 1) ELSE << >>

\* The entries of trader tr if tr is loaded without a failure, none otherwise.
LoadedRecs(tr) == IF Succeeded(tr) THEN AddedRecs(tr) ELSE << >>

\* The entries of all loaded traders, in order.
RECURSIVE AllLoaded(_)
AllLoaded(traders) ==
    IF traders = << >> THEN << >>
    ELSE LoadedRecs(Head(traders)) \o AllLoaded(Tail(traders))

\* The entries the loop adds over all traders, in order.
RECURSIVE AllAdded(_)
AllAdded(traders) ==
    IF traders = << >> THEN << >>
    ELSE AddedRecs(Head(traders)) \o AllAdded(Tail(traders))

\* An entry is on the long side if sz > 0, on the short side otherwise.
IsLong(rec) == rec.szi > 0

\* The sum of val over the entries of recs of coin c (of any coin if c = 0)
\* on the long side (long = TRUE) or the short side.
RECURSIVE SumRecs(_, _, _)
SumRecs(recs, c, long) ==
    IF recs = << >> THEN 0
    ELSE (IF (c = 0 \/ Head(recs).coin = c) /\ IsLong(Head(recs)) = long
          THEN Head(recs).val ELSE 0)
         + SumRecs(Tail(recs), c, long)

\* C12: the gR of a snapshot is round(T_long / (T_long + T_short), 4) if
\* T_long + T_short > 0 and 0 otherwise, with T_long and T_short the sums of
\* val over the long and the short entries with val # 0 of the traders loaded
\* without a failure.
C12_GlobalRatio ==
    \A t \in Threads :
        HasSnap(t) =>
            LET T_long == SumRecs(AllLoaded(loc[t].traders), 0, TRUE)
                T_short == SumRecs(AllLoaded(loc[t].traders), 0, FALSE)
            IN  loc[t].snap.gR =
                   IF T_long + T_short > 0
                   THEN Ratio4(T_long, T_long + T_short) ELSE 0

\* The traders (by place in the list) of which the loop added an entry of
\* coin c on the given side.
Contributors(traders, c, long) ==
    {k \in 1..Len(traders) :
        \E j \in 1..Len(AddedRecs(traders[k])) :
            /\ AddedRecs(traders[k])[j].coin = c
            /\ IsLong(AddedRecs(traders[k])[j]) = long}

\* C13: for every coin of a snapshot, lT and sT are the numbers of distinct
\* traders with at least one entry with val # 0 of that coin on the long and
\* on the short side, also when a trader holds several entries of the coin.
C13_TraderCounts ==
    \A t \in Threads :
        HasSnap(t) =>
            \A k \in 1..Len(loc[t].snap.coins) :
                LET e == loc[t].snap.coins[k]
                IN  /\ e.lT = Cardinality(Contributors(loc[t].traders, e.c, TRUE))
                    /\ e.sT = Cardinality(Contributors(loc[t].traders, e.c, FALSE))

\* Coin entry e carries the rounded sums of the entries recs of its coin.
SumsOf(e, recs) ==
    LET L == SumRecs(recs, e.c, TRUE)
        S == SumRecs(recs, e.c, FALSE)
    IN  /\ e.lN = Round2(L)
        /\ e.sN = Round2(S)
        /\ e.t = Round2(L + S)
        /\ L + S # 0
        /\ e.r = Ratio4(L, L + S)

\* C14: for every coin of a snapshot, lN and sN are the sums L and S of val
\* over the long (sz > 0) and the other entries of that coin of the traders
\* loaded without a failure, t is L + S and r is round(L / (L + S), 4), each
\* sum rounded to cents; and for trader A long BTC 1000 and trader B short
\* BTC 500 the snapshot has BTC with r 0.6667, t 1500, counts 1 and 1, and
\* gR 0.6667.
C14_CoinSums ==
    \A t \in Threads :
        HasSnap(t) =>
            /\ \A k \in 1..Len(loc[t].snap.coins) :
                  SumsOf(loc[t].snap.coins[k], AllLoaded(loc[t].traders))
            /\ loc[t].traders = << A_ok, B_ok >> =>
                  /\ loc[t].snap.coins =
                        << [c |-> BTC, r |-> 6667, t |-> 150000, lN |-> 100000,
                            sN |-> 50000, lT |-> 1, sT |-> 1] >>
                  /\ loc[t].snap.gR = 6667

Coins == {BTC, ETH, SOL}

\* The place of the first entry of coin c among recs, 0 if there is none.
FirstSeen(recs, c) ==
    IF \E j \in 1..Len(recs) : recs[j].coin = c
    THEN CHOOSE j \in 1..Len(recs) :
            /\ recs[j].coin = c
            /\ \A i \in 1..(j - 1) : recs[i].coin # c
    ELSE 0

\* The sum of val over the entries of coin c among recs.
TotalOf(recs, c) == SumRecs(recs, c, TRUE) + SumRecs(recs, c, FALSE)

\* The coins that have an entry among recs and a total other than 0.
Listed(recs) == {c \in Coins : FirstSeen(recs, c) > 0 /\ TotalOf(recs, c) # 0}

\* Coin c1 with rounded total t1 ranks before coin c2 with rounded total t2.
RanksBefore(recs, c1, t1, c2, t2) ==
    \/ t1 > t2
    \/ t1 = t2 /\ FirstSeen(recs, c1) < FirstSeen(recs, c2)

\* C15: the coins of a snapshot are in descending order of t, coins of equal
\* t in the order in which their first entry was added; there are at most
\* COIN_CAP of them, and they are the highest-ranked of all coins with a
\* total other than 0.
C15_Ranking ==
    \A t \in Threads :
        HasSnap(t) =>
            LET recs == AllAdded(loc[t].traders)
                coins == loc[t].snap.coins
                n == Len(coins)
            IN  /\ n = Min(Cardinality(Listed(recs)), COIN_CAP)
                /\ \A i \in 1..n : coins[i].c \in Listed(recs)
                /\ \A i, j \in 1..n :
                      i < j => RanksBefore(recs, coins[i].c, coins[i].t,
                                                 coins[j].c, coins[j].t)
                /\ \A c \in Listed(recs) :
                      (\A i \in 1..n : coins[i].c # c) =>
                          \A i \in 1..n :
                              RanksBefore(recs, coins[i].c, coins[i].t,
                                          c, Round2(TotalOf(recs, c)))

\* A snapshot of three coins cut to COIN_CAP, whose first two have the same
\* t and stand in the order of their first entries, ETH before BTC.
C15_Witness ==
    /\ HasSnap("http")
    /\ Cardinality(Listed(AllAdded(loc["http"].traders))) > COIN_CAP
    /\ Len(loc["http"].snap.coins) = COIN_CAP
    /\ loc["http"].snap.coins[1].t = loc["http"].snap.coins[2].t
    /\ loc["http"].snap.coins[1].c = ETH
    /\ loc["http"].snap.coins[2].c = BTC

\* C16: no coin whose lN plus sN is 0 is in a snapshot: every coin of a
\* snapshot has t = lN + sN > 0 and r between 0 and 1.
C16_NoZeroCoin ==
    \A t \in Threads :
        HasSnap(t) =>
            \A k \in 1..Len(loc[t].snap.coins) :
                LET e == loc[t].snap.coins[k]
                IN  /\ e.lN + e.sN # 0
                    /\ e.t = e.lN + e.sN
                    /\ e.t > 0
                    /\ e.r >= 0
                    /\ e.r <= 10000

\* C17: while and after the traders are aggregated, every coin's lN and sN
\* and both of its counts are at least 0.
C17_NonNegative ==
    \A t \in Threads :
        \A k \in 1..Len(loc[t].acc.coin_data) :
            LET d == loc[t].acc.coin_data[k]
            IN  d.lN >= 0 /\ d.sN >= 0 /\ d.lT >= 0 /\ d.sT >= 0

\* C18: the snapshots of the persisted history are in the order of their
\* timestamps, which never decrease from the first entry to the last.
C18_OldestFirst ==
    \A i, j \in 1..Len(Persisted) :
        i < j => Persisted[i].ts <= Persisted[j].ts

\* C19: a run over no traders, and likewise a run all of whose traders fail,
\* builds a snapshot with no coins, gR 0 and traders 0.
C19_EmptySnapshot ==
    \A t \in Threads :
        (/\ HasSnap(t)
         /\ \A k \in 1..Len(loc[t].traders) : FailedTrader(loc[t].traders[k]))
        => /\ loc[t].snap.coins = << >>
           /\ loc[t].snap.gR = 0
           /\ loc[t].snap.traders = 0

\* C20: a step of a run that has not yet built its snapshot (the call, the
\* leaderboard, a trader, the building of the snapshot) neither loads the
\* history nor changes the storage file.
C20_StoreAfterAggregation ==
    [][\A t \in Threads :
          (/\ pc[t] \in {"idle", "fetch_lb", "loop"}
           /\ (pc'[t] # pc[t] \/ loc'[t] # loc[t]))
          => /\ file' = file
             /\ loc'[t].snaps = NoLocals.snaps]_vars

\* The cron run has built its snapshot over a full history that is as the
\* process found it, while the HTTP thread has made no run.
C20_Witness ==
    /\ pc["cron"] = "load"
    /\ loc["cron"].i = Len(loc["cron"].traders)
    /\ loc["cron"].i > 0
    /\ budget["http"] = MaxRuns
    /\ file = store0
    /\ Len(Persisted) = MAX_SNAPS

\* The sum of lN (long = TRUE) or sN over the entries of coin_data cd whose
\* coin is in the set kept.
RECURSIVE SumCoins(_, _, _)
SumCoins(cd, long, kept) ==
    IF cd = << >> THEN 0
    ELSE (IF Head(cd).c \in kept
          THEN (IF long THEN Head(cd).lN ELSE Head(cd).sN) ELSE 0)
         + SumCoins(Tail(cd), long, kept)

\* The coins of a snapshot.
Retained(snap) == {snap.coins[k].c : k \in 1..Len(snap.coins)}

\* C21: in every snapshot tL and tS are the sums of lN and of sN over all
\* coins aggregated, before the cut to COIN_CAP and also when a trader failed
\* after some of its entries, each rounded to cents; so they are at least the
\* sums over the coins the snapshot retains.
C21_GlobalTotals ==
    \A t \in Threads :
        HasSnap(t) =>
            LET cd == loc[t].acc.coin_data
                snap == loc[t].snap
            IN  /\ snap.tL = Round2(SumCoins(cd, TRUE, Coins))
                /\ snap.tS = Round2(SumCoins(cd, FALSE, Coins))
                /\ snap.tL >= Round2(SumCoins(cd, TRUE, Retained(snap)))
                /\ snap.tS >= Round2(SumCoins(cd, FALSE, Retained(snap)))

====
